---- MODULE Spec2Model ----
(***************************************************************************)
(* Model of the AI-Developer task orchestrator.                            *)
(*                                                                         *)
(* Two specifications share this module:                                   *)
(*   Spec     one run of an orchestrator (orchestrator_ai_parallel_with_   *)
(*            archive.py, orchestrator_ai_parallel.py or orchestrator_ai   *)
(*            .py): the worker pool, the per-task steps, the git lock, the *)
(*            archive files, the git repository of the project, the final  *)
(*            save of the task set (with a stop of the process inside it)  *)
(*            and a further invocation on an all-done task set;            *)
(*   SpecOps  one call of call_openai_chat's apply_operations on a batch   *)
(*            of operations: path resolution, the lock registry and the    *)
(*            write / append / patch actions on a file system, and a stop  *)
(*            of the process inside a write.                               *)
(* Strings whose characters matter (paths, file contents) are sequences of *)
(* one-character strings.                                                  *)
(***************************************************************************)
EXTENDS Integers, Sequences, FiniteSets, TLC

VARIABLES
    \* ---- the run (Spec) ----
    cfg,        \* the parsed command line (args) and the program that runs
    loaded,     \* the task set as load_tasks_from_path returned it
    tasks,      \* the in-memory task list; workers mutate its records in place
    tasksFile,  \* content of the task-set file on disk
    pc,         \* per task: position of the worker that executes it
    mainpc,     \* position of main()
    GIT_LOCK,   \* _GIT_LOCK: 0 when free, else the task whose worker holds it
    calls,      \* per task: run_task / apply_operations / git invocations so far
    archive,    \* the two archive files: failed and done, each a list of records
    repo,       \* the project directory: the task files on disk and the git repository
    run,        \* which invocation of the program this is, counted from 1
    pending,    \* per task: the archive_append call in progress (record, file, blob)
    \* ---- apply_operations (SpecOps) ----
    opc,        \* position: "import", "chdir", "apply", "returned"
    cwd,        \* the process's current directory
    REPO_ROOT,  \* file_ops.REPO_ROOT, set when file_ops is imported
    fs,         \* regular files: absolute path -> content
    dirs,       \* directories: set of absolute paths
    nops,       \* number of operations of the batch taken so far
    lastOp,     \* the operation the last ApplyOp step processed
    err,        \* kind of the exception apply_operations raised, or "none"
    result      \* what call_openai_chat returned

runVars == <<cfg, loaded, tasks, tasksFile, pc, mainpc, GIT_LOCK, calls, archive, pending, repo, run>>
opsVars == <<opc, cwd, REPO_ROOT, fs, dirs, nops, lastOp, err, result>>
vars == <<runVars, repo, run, opsVars>>

\* ---- bounds ----
MaxTasks == 2
MaxWorkers == 2
MaxRuns == 2

\* A key a dict does not hold.
Absent == "<absent>"

(***************************************************************************)
(* Task records                                                            *)
(***************************************************************************)
VALID_STATUSES == {"pending", "error"}
REQUIRED_TASK_KEYS == {"id", "title", "description"}

\* t.get("status", "pending")
StatusOrPending(t) == IF t.status = Absent THEN "pending" ELSE t.status

\* validate_task: no required key is missing
validate_task(t) == \A k \in REQUIRED_TASK_KEYS : t[k] # Absent

\* The id of the i-th loaded task (ids are unique, section 3 of the data model).
IdOf(i) == <<"t1", "t2", "t3", "t4", "t5">>[i]

\* The task records the model loads, one per kind, at position i.
TaskKinds == {"pending", "error", "done", "running",
              "noid", "notitle", "nodesc", "done_noid"}

TaskOf(kind, i) ==
    [id          |-> IF kind \in {"noid", "done_noid"} THEN Absent ELSE IdOf(i),
     title       |-> IF kind = "notitle" THEN Absent ELSE "title",
     description |-> IF kind = "nodesc" THEN Absent ELSE "description",
     status      |-> CASE kind \in {"error", "done", "running"} -> kind
                       [] kind = "done_noid" -> "done"
                       [] OTHER -> "pending",
     branch      |-> IF kind = "done" THEN "task/" \o IdOf(i) ELSE Absent,
     completed_at |-> IF kind = "done" THEN "earlier" ELSE Absent,
     feedback    |-> Absent]

TaskSets ==
    UNION {{[i \in 1..n |-> TaskOf(k[i], i)] : k \in [1..n -> TaskKinds]} : n \in 1..MaxTasks}

\* args and the program (one worker, or a pool of MaxWorkers: a smaller pool only
\* delays the start of a task, which every pool allows): --git, --dry-run, --prune-done (with_archive only),
\* --archive (orchestrator_ai.py only), --workers / --parallel, and whether the
\* task-set path lies under the project directory (read by orchestrator_ai.py only).
Configs ==
    [variant : {"archive"}, git : BOOLEAN, dry_run : BOOLEAN, prune_done : BOOLEAN,
     archive : {TRUE}, workers : {1, MaxWorkers}, tasks_in_project : {TRUE}]
    \cup
    [variant : {"parallel"}, git : BOOLEAN, dry_run : BOOLEAN, prune_done : {FALSE},
     archive : {FALSE}, workers : {1, MaxWorkers}, tasks_in_project : {TRUE}]
    \cup
    [variant : {"orch"}, git : BOOLEAN, dry_run : BOOLEAN, prune_done : {FALSE},
     archive : BOOLEAN, workers : {1, MaxWorkers}, tasks_in_project : BOOLEAN]

TaskIdx == 1..Len(tasks)

Terminal == {"skipped", "invalid", "returned", "raised"}
Active(t) == pc[t] \notin Terminal \cup {"new", "queued"}

\* No status filter: every loaded task is run.
Eligible_All(t) == StatusOrPending(t) = StatusOrPending(t)

\* The status filter letting everything but done through.
Eligible_NotDone(t) == StatusOrPending(t) # "done"

\* tasks_to_run / runnable: the status filter
Eligible(t) == StatusOrPending(t) \in VALID_STATUSES

\* Whether this program writes archive records.
Archives == cfg.variant = "archive" \/ (cfg.variant = "orch" /\ cfg.archive)

\* orchestrator_ai.py with --parallel <= 1 runs the tasks in a plain loop.
Sequential == cfg.variant = "orch" /\ cfg.workers <= 1

NoRecord == [id |-> Absent, title |-> Absent, outcome |-> "none"]
NoPending == [file |-> "none", rec |-> NoRecord, blob |-> <<>>]

\* The record execute_task / process_task hands to archive_append.
ArchiveRecord(t, outcome) ==
    [id |-> t.id,
     title |-> IF t.title = Absent /\ cfg.variant = "archive" THEN t.id ELSE t.title,
     outcome |-> outcome]

ZeroCalls == [run_task |-> 0, apply |-> 0, git |-> 0, git_env |-> 0]

(***************************************************************************)
(* The project directory under git.  Every task's Proposer answer writes   *)
(* one file of its own, named here by the task's position.  A branch is    *)
(* the set of files its tip commit tracks; each file enters history in one *)
(* commit, so a branch is contained in another exactly when its files are. *)
(***************************************************************************)
\* head: the branch checked out; tree: branch -> files tracked at its tip;
\* work: the task files present in the working directory; merged: the branches
\* a merge commit on the default branch has integrated.
RepoAt(b) == [head |-> b, tree |-> [x \in {b} |-> {}], work |-> {}, merged |-> {}]

InitialRepo == RepoAt("main")

\* The repositories a run with --git starts in: the one branch is main or has
\* a name _default_branch does not try.
InitialRepos == {RepoAt("main"), RepoAt("trunk")}

GitOut(ok, r) == [ok |-> ok, repo |-> r]

SetBranch(tree, b, files) == [x \in DOMAIN tree \cup {b} |-> IF x = b THEN files ELSE tree[x]]

\* git rev-parse --verify <branch>
rev_parse_verify(r, b) == b \in DOMAIN r.tree

\* git checkout <branch>: files tracked only at the old tip leave the working
\* directory, files tracked only at the new tip appear; git refuses when an
\* untracked file would be overwritten.
git_checkout(r, b) ==
    IF ~rev_parse_verify(r, b) THEN GitOut(FALSE, r)
    ELSE LET old == r.tree[r.head]
             new == r.tree[b]
         IN  IF (r.work \ old) \cap (new \ old) # {} THEN GitOut(FALSE, r)
             ELSE GitOut(TRUE, [r EXCEPT !.head = b, !.work = (@ \ (old \ new)) \cup new])

\* git checkout -b <branch>: a new branch at the current tip; the working
\* directory is kept.
git_checkout_b(r, b) ==
    IF rev_parse_verify(r, b) THEN GitOut(FALSE, r)
    ELSE GitOut(TRUE, [r EXCEPT !.head = b, !.tree = SetBranch(@, b, r.tree[r.head])])

\* git add -A; git commit: everything in the working directory goes into a
\* commit on the branch checked out; with nothing to commit git exits non-zero.
git_add_commit(r) ==
    IF r.work = r.tree[r.head] THEN GitOut(FALSE, r)
    ELSE GitOut(TRUE, [r EXCEPT !.tree[r.head] = r.work])

\* _default_branch: main, else master, else the branch checked out.
_default_branch(r) ==
    IF rev_parse_verify(r, "main") THEN "main"
    ELSE IF rev_parse_verify(r, "master") THEN "master"
    ELSE r.head

\* git merge --no-ff <branch> on the branch checked out: "Already up to date"
\* when the branch is contained in it, else a merge commit.
git_merge_no_ff(r, b) ==
    LET mine == r.tree[r.head]
        theirs == r.tree[b]
    IN  IF theirs \subseteq mine THEN GitOut(TRUE, r)
        ELSE IF (r.work \ mine) \cap theirs # {} THEN GitOut(FALSE, r)
        ELSE GitOut(TRUE, [r EXCEPT !.tree[r.head] = mine \cup theirs,
                                    !.work = @ \cup theirs,
                                    !.merged = @ \cup {b}])

RunIdle ==
    /\ cfg = [variant |-> "none", git |-> FALSE, dry_run |-> FALSE, prune_done |-> FALSE,
              archive |-> FALSE, workers |-> 1, tasks_in_project |-> FALSE]
    /\ loaded = <<>> /\ tasks = <<>> /\ tasksFile = <<>>
    /\ pc = <<>> /\ mainpc = "off" /\ GIT_LOCK = 0 /\ calls = <<>>
    /\ repo = InitialRepo
    /\ run = 1
    /\ archive = [failed |-> <<>>, done |-> <<>>] /\ pending = <<>>

OpsIdle ==
    /\ opc = "off" /\ cwd = <<>> /\ REPO_ROOT = <<>> /\ fs = <<>> /\ dirs = {}
    /\ nops = 0 /\ lastOp = [action |-> "", path |-> <<>>, content |-> <<>>] /\ err = "none"
    /\ result = [error |-> FALSE, feedback |-> "none"]

\* main() up to load_tasks_from_path: the arguments are parsed and the task set is read.
Init ==
    /\ cfg \in Configs
    /\ loaded \in TaskSets
    /\ tasks = loaded
    /\ tasksFile = loaded
    /\ pc = [t \in 1..Len(loaded) |-> "new"]
    /\ mainpc = "load"
    /\ GIT_LOCK = 0
    /\ calls = [t \in 1..Len(loaded) |-> ZeroCalls]
    /\ archive = [failed |-> <<>>, done |-> <<>>]
    /\ pending = [t \in 1..Len(loaded) |-> NoPending]
    /\ repo \in IF cfg.git THEN InitialRepos ELSE {InitialRepo}
    /\ run = 1
    /\ OpsIdle

(***************************************************************************)
(* The workers: execute_task (with_archive, parallel), process_task (orch)  *)
(***************************************************************************)
SetStatus(t, s) == [tasks EXCEPT ![t].status = s]

\* archive_append is a read-modify-write of the archive file: calling it
\* leaves the worker before the read; a program that keeps no archive returns.
CallArchive(t, file, rec) ==
    IF Archives
    THEN /\ pc' = [pc EXCEPT ![t] = "arch_read"]
         /\ pending' = [pending EXCEPT ![t] = [file |-> file, rec |-> rec, blob |-> <<>>]]
    ELSE /\ pc' = [pc EXCEPT ![t] = "returned"]
         /\ UNCHANGED pending

\* The error exits of execute_task / process_task: status error, failure record.
Fail(t, outcome) ==
    /\ tasks' = SetStatus(t, "error")
    /\ CallArchive(t, "failed", ArchiveRecord(tasks[t], outcome))

\* The success exit: status done (with_archive also sets completed_at and
\* branch = branch or "task-<id>"), success record.
Succeed(t, branch) ==
    /\ tasks' = IF cfg.variant = "archive"
                THEN [tasks EXCEPT ![t].status = "done",
                                   ![t].completed_at = "now",
                                   ![t].branch = IF branch # Absent THEN branch
                                                 ELSE "task-" \o tasks[t].id]
                ELSE SetStatus(t, "done")
    /\ CallArchive(t, "done", ArchiveRecord(tasks[t], "done"))

\* Leaving the block keeps the lock held.
ReleaseGitLock_Leak(t) == GIT_LOCK' = GIT_LOCK

\* with _GIT_LOCK: leaving the block releases the lock, by return or by exception.
ReleaseGitLock(t) == GIT_LOCK' = IF GIT_LOCK = t THEN 0 ELSE GIT_LOCK

\* The pool hands the queued tasks to its threads in submission order, at most
\* cfg.workers at a time; the plain loop of orchestrator_ai.py stops at the first
\* exception.
MayStart(t) ==
    /\ mainpc = "pool"
    /\ pc[t] = "queued"
    /\ \A u \in TaskIdx : pc[u] = "queued" => t <= u
    /\ Cardinality({u \in TaskIdx : Active(u)}) < cfg.workers
    /\ Sequential => \A u \in TaskIdx : pc[u] # "raised"

\* The head of execute_task / process_task: task["id"] (and task["title"]),
\* then validate_task.
Start(t) ==
    /\ MayStart(t)
    /\ UNCHANGED <<cfg, loaded, tasksFile, mainpc, GIT_LOCK, calls, archive, repo, run, opsVars>>
    /\ IF \/ tasks[t].id = Absent
          \/ (cfg.variant # "archive" /\ tasks[t].title = Absent)
       THEN \* KeyError
            /\ pc' = [pc EXCEPT ![t] = "raised"]
            /\ UNCHANGED <<tasks, pending>>
       ELSE IF cfg.variant # "orch" /\ ~validate_task(tasks[t])
       THEN IF cfg.variant = "archive"
            THEN Fail(t, "validation failed")
            ELSE /\ tasks' = SetStatus(t, "error")
                 /\ pc' = [pc EXCEPT ![t] = "returned"]
                 /\ UNCHANGED pending
       ELSE /\ pc' = [pc EXCEPT ![t] = "proposer"]
            /\ UNCHANGED <<tasks, pending>>

\* What run_task can do: fail before any file is touched (provider_error: no API
\* key, call error, unparsable answer), fail inside apply_operations
\* (apply_error), succeed (ok), or raise an exception call_openai_chat does not
\* catch (raise). A dry run returns before apply_operations.
ProposerOutcomes ==
    IF cfg.dry_run THEN {"provider_error", "ok", "raise"}
    ELSE {"provider_error", "apply_error", "ok", "raise"}

\* run_task and the branches on its result, up to the git block.
Proposer(t) ==
    /\ pc[t] = "proposer"
    /\ UNCHANGED <<cfg, loaded, tasksFile, mainpc, GIT_LOCK, archive, run, opsVars>>
    /\ \E out \in ProposerOutcomes :
        /\ calls' = [calls EXCEPT ![t].run_task = @ + 1,
                                  ![t].apply = IF out \in {"apply_error", "ok"} /\ ~cfg.dry_run
                                               THEN @ + 1 ELSE @]
        /\ repo' = IF out = "ok" /\ ~cfg.dry_run THEN [repo EXCEPT !.work = @ \cup {t}]
                   ELSE repo
        /\ CASE out = "raise" ->
                  /\ pc' = [pc EXCEPT ![t] = "raised"]
                  /\ UNCHANGED <<tasks, pending>>
             [] out \in {"provider_error", "apply_error"} ->
                  Fail(t, "task failed")
             [] out = "ok" /\ cfg.git /\ ~cfg.dry_run ->
                  /\ pc' = [pc EXCEPT ![t] = IF cfg.variant = "archive" THEN "gitwait"
                                             ELSE "branch"]
                  /\ UNCHANGED <<tasks, pending>>
             [] OTHER ->
                  Succeed(t, Absent)

\* The lock taken without waiting for its holder.
GitAcquire_NoWait(t) ==
    /\ pc[t] = "gitwait"
    /\ GIT_LOCK' = t
    /\ pc' = [pc EXCEPT ![t] = "branch"]
    /\ UNCHANGED <<cfg, loaded, tasks, tasksFile, mainpc, calls, archive, pending, repo, run, opsVars>>

\* with _GIT_LOCK: (with_archive only)
GitAcquire(t) ==
    /\ pc[t] = "gitwait"
    /\ GIT_LOCK = 0
    /\ GIT_LOCK' = t
    /\ pc' = [pc EXCEPT ![t] = "branch"]
    /\ UNCHANGED <<cfg, loaded, tasks, tasksFile, mainpc, calls, archive, pending, repo, run, opsVars>>

\* One of the three git calls, out being what its commands do to the
\* repository.  A command can also fail for a reason outside the repository's
\* content (no identity configured, a hook, a stale index.lock): env says
\* whether none does ("ok"), the first command of the call does ("first") or a
\* later one does ("later"), which leaves the repository as the commands
\* before it made it: part.  A failing command raises and the except branch runs.
GitStep(t, at, next, out, part) ==
    /\ pc[t] = at
    /\ UNCHANGED <<cfg, loaded, tasksFile, mainpc, archive, run, opsVars>>
    /\ \E env \in {"ok", "first", "later"} :
        /\ calls' = [calls EXCEPT ![t].git = @ + 1,
                                  ![t].git_env = IF env = "ok" THEN @ ELSE @ + 1]
        /\ repo' = CASE env = "ok" -> out.repo
                     [] env = "first" -> repo
                     [] OTHER -> part
        /\ IF ~(env = "ok" /\ out.ok)
           THEN /\ ReleaseGitLock(t)
                /\ Fail(t, "git error")
           ELSE IF next = "finish"
           THEN /\ ReleaseGitLock(t)
                /\ Succeed(t, "task/" \o tasks[t].id)
           ELSE /\ pc' = [pc EXCEPT ![t] = next]
                /\ UNCHANGED <<tasks, pending, GIT_LOCK>>

\* The branch of a task.
BranchOf(t) == "task/" \o tasks[t].id

\* rev-parse, then checkout of the existing branch; on any failure checkout -b.
create_or_checkout_branch_for_task(t) ==
    GitStep(t, "branch", "commit",
            LET co == git_checkout(repo, BranchOf(t))
            IN  IF co.ok THEN co ELSE git_checkout_b(repo, BranchOf(t)),
            repo)

\* git add -A, then git commit.
commit_all_for_task(t) == GitStep(t, "commit", "merge", git_add_commit(repo), repo)

\* checkout of the default branch, then merge --no-ff; a failing merge leaves
\* the default branch checked out.
merge_branch_to_default(t) ==
    GitStep(t, "merge", "finish",
            LET co == git_checkout(repo, _default_branch(repo))
            IN  IF co.ok THEN git_merge_no_ff(co.repo, BranchOf(t)) ELSE co,
            git_checkout(repo, _default_branch(repo)).repo)

\* archive_append, first half: load the file's records.
ArchiveRead(t) ==
    /\ pc[t] = "arch_read"
    /\ pending' = [pending EXCEPT ![t].blob = archive[pending[t].file]]
    /\ pc' = [pc EXCEPT ![t] = "arch_write"]
    /\ UNCHANGED <<cfg, loaded, tasks, tasksFile, mainpc, GIT_LOCK, calls, archive, repo, run, opsVars>>

\* archive_append, second half: write the records read plus the new one; the
\* worker then returns.
ArchiveWrite(t) ==
    /\ pc[t] = "arch_write"
    /\ archive' = [archive EXCEPT ![pending[t].file] = Append(pending[t].blob, pending[t].rec)]
    /\ pending' = [pending EXCEPT ![t] = NoPending]
    /\ pc' = [pc EXCEPT ![t] = "returned"]
    /\ UNCHANGED <<cfg, loaded, tasks, tasksFile, mainpc, GIT_LOCK, calls, repo, run, opsVars>>

(***************************************************************************)
(* main()                                                                  *)
(***************************************************************************)
\* A dict as Python keeps it: insertion-ordered, a repeated key keeps its place
\* and takes the new value.
DictPut(d, k, v) ==
    IF \E i \in 1..Len(d) : d[i].key = k
    THEN [i \in 1..Len(d) |-> IF d[i].key = k THEN [key |-> k, val |-> v] ELSE d[i]]
    ELSE Append(d, [key |-> k, val |-> v])

RECURSIVE DictFrom(_, _)
\* {t["id"]: t for t in ts[1..n]}
DictFrom(ts, n) == IF n = 0 THEN <<>> ELSE DictPut(DictFrom(ts, n - 1), ts[n].id, ts[n])

RECURSIVE DictUpdate(_, _, _)
\* for ut in updated_tasks: task_dict[ut["id"]] = ut   (the workers' returned records)
DictUpdate(d, ts, n) ==
    IF n = 0 THEN d
    ELSE IF pc[n] = "returned" THEN DictPut(DictUpdate(d, ts, n - 1), ts[n].id, ts[n])
    ELSE DictUpdate(d, ts, n - 1)

DictValues(d) == [i \in 1..Len(d) |-> d[i].val]

\* "Merge updates": list(task_dict.values())
MergedTasks == DictValues(DictUpdate(DictFrom(tasks, Len(tasks)), tasks, Len(tasks)))

IsPending(t) == t.status = "pending"

\* --prune-done: [t for t in final_tasks if t.get("status") == "pending"]
Pruned(ts) == SelectSeq(ts, IsPending)

\* What main hands to save_tasks.
final_tasks == IF cfg.variant = "archive" /\ cfg.prune_done THEN Pruned(MergedTasks)
               ELSE MergedTasks

\* orchestrator_ai.py validates in main, before dispatch.
InvalidInMain(t) == cfg.variant = "orch" /\ Eligible(tasks[t]) /\ ~validate_task(tasks[t])

ValidationRecord(t) == [id |-> t.id, title |-> t.title, outcome |-> "validation failed"]

RECURSIVE ValidationRecords(_)
ValidationRecords(n) ==
    IF n = 0 THEN <<>>
    ELSE IF InvalidInMain(n) THEN Append(ValidationRecords(n - 1), ValidationRecord(tasks[n]))
    ELSE ValidationRecords(n - 1)

\* From load_tasks_from_path to the submission of the runnable tasks: the status
\* filter and, in orchestrator_ai.py, the validation loop.
MainDispatch ==
    /\ mainpc = "load"
    /\ mainpc' = "pool"
    /\ pc' = [t \in TaskIdx |-> IF ~Eligible(tasks[t]) THEN "skipped"
                                ELSE IF InvalidInMain(t) THEN "invalid"
                                ELSE "queued"]
    /\ tasks' = [t \in TaskIdx |-> IF InvalidInMain(t) THEN [tasks[t] EXCEPT !.status = "error"]
                                   ELSE tasks[t]]
    /\ archive' = IF cfg.variant = "orch" /\ cfg.archive
                  THEN [archive EXCEPT !.failed = @ \o ValidationRecords(Len(tasks))]
                  ELSE archive
    /\ UNCHANGED <<cfg, loaded, tasksFile, GIT_LOCK, calls, pending, repo, run, opsVars>>

SomeRaised == \E t \in TaskIdx : pc[t] = "raised"

\* Every submitted task has finished (the pool's with-block has been left), or
\* the plain loop was left by an exception.
PoolLeft ==
    \A t \in TaskIdx : /\ ~Active(t)
                       /\ pc[t] = "queued" => (Sequential /\ SomeRaised)

\* How main() ends once the save, if any, is over.
MainEnd == IF cfg.variant = "orch" /\ SomeRaised THEN "aborted" ELSE "done"

\* save_tasks, first half: open(path, "w") leaves the file empty.
save_tasks_open ==
    /\ tasksFile' = <<>>
    /\ mainpc' = "saving"

\* The end of main(): future.result() re-raises a worker's exception, the merge
\* by id, the pruning and the call of save_tasks.
MainJoin ==
    /\ mainpc = "pool"
    /\ PoolLeft
    /\ UNCHANGED <<cfg, loaded, tasks, pc, GIT_LOCK, calls, archive, pending, repo, run, opsVars>>
    /\ IF cfg.variant = "orch"
       THEN \* the finally block saves the list, then the exception goes on
            IF cfg.tasks_in_project /\ ~cfg.dry_run THEN save_tasks_open
            ELSE /\ mainpc' = MainEnd
                 /\ UNCHANGED tasksFile
       ELSE IF SomeRaised \/ \E t \in TaskIdx : tasks[t].id = Absent
       THEN \* future.result() raised, or t["id"] raised KeyError in the merge
            /\ mainpc' = "aborted"
            /\ UNCHANGED tasksFile
       ELSE IF cfg.dry_run
       THEN /\ mainpc' = "done"
            /\ UNCHANGED tasksFile
       ELSE save_tasks_open

\* save_tasks, second half: json.dump writes the list into the open file.
save_tasks_dump ==
    /\ mainpc = "saving"
    /\ tasksFile' = IF cfg.variant = "orch" THEN tasks ELSE final_tasks
    /\ mainpc' = MainEnd
    /\ UNCHANGED <<cfg, loaded, tasks, pc, GIT_LOCK, calls, archive, pending, repo, run, opsVars>>

\* The process stops (kill, power loss) between the two halves of save_tasks.
Killed ==
    /\ mainpc = "saving"
    /\ mainpc' = "crashed"
    /\ UNCHANGED <<cfg, loaded, tasks, tasksFile, pc, GIT_LOCK, calls, archive, pending, repo, run,
                   opsVars>>

\* The records of the task-set file all have status done.
AllDone(ts) == ts # <<>> /\ \A i \in 1..Len(ts) : ts[i].status = "done"

\* The same program is invoked again, with any flags, on the task set the run
\* before left on disk; the archive files and the repository are as that run
\* left them.  The model follows a further invocation when every persisted
\* task is done.
RunAgain ==
    /\ mainpc = "done"
    /\ run < MaxRuns
    /\ AllDone(tasksFile)
    /\ run' = run + 1
    /\ cfg' \in {c \in Configs : c.variant = cfg.variant}
    /\ loaded' = tasksFile
    /\ tasks' = tasksFile
    /\ pc' = [t \in 1..Len(tasksFile) |-> "new"]
    /\ mainpc' = "load"
    /\ GIT_LOCK' = 0
    /\ calls' = [t \in 1..Len(tasksFile) |-> ZeroCalls]
    /\ pending' = [t \in 1..Len(tasksFile) |-> NoPending]
    /\ UNCHANGED <<tasksFile, archive, repo, opsVars>>

Next ==
    \/ MainDispatch
    \/ \E t \in TaskIdx : Start(t)
    \/ \E t \in TaskIdx : Proposer(t)
    \/ \E t \in TaskIdx : GitAcquire(t)
    \/ \E t \in TaskIdx : create_or_checkout_branch_for_task(t)
    \/ \E t \in TaskIdx : commit_all_for_task(t)
    \/ \E t \in TaskIdx : merge_branch_to_default(t)
    \/ \E t \in TaskIdx : ArchiveRead(t)
    \/ \E t \in TaskIdx : ArchiveWrite(t)
    \/ MainJoin
    \/ save_tasks_dump
    \/ Killed
    \/ RunAgain

Spec == Init /\ [][Next]_vars

\* The same runs when every external call returns and the pool's threads are
\* scheduled: as long as the program can take a step, it takes one.
FairSpec == Spec /\ WF_vars(Next)

(***************************************************************************)
(* Properties of the run                                                   *)
(***************************************************************************)
Finished == mainpc \in {"done", "aborted"}

\* The loaded status of the task is pending or error (or it has none).
LoadedEligible(t) == StatusOrPending(loaded[t]) \in {"pending", "error"}

\* The task has made its first git step and not yet its last.
MidGit(t) == pc[t] \in {"commit", "merge"}
InGit(t) == pc[t] \in {"branch", "commit", "merge"}

\* This step executes a git call of task u.
GitStepOf(u) == calls'[u].git # calls[u].git

\* No git call of a task falls between the first and the last git call of another.
NoForeignGitStep ==
    \A t \in TaskIdx : \A u \in TaskIdx : (t # u /\ MidGit(t)) => ~GitStepOf(u)

\* C1: in orchestrator_ai_parallel_with_archive.py at most one worker at a time is
\* inside the branch / commit / merge sequence, and between the first and the
\* last git step of a task no git step of another task is executed.
C1_GitSerialized ==
    /\ [](cfg.variant = "archive" => Cardinality({t \in TaskIdx : InGit(t)}) <= 1)
    /\ [][cfg.variant = "archive" => NoForeignGitStep]_vars

\* C1 witness: one worker is in the middle of its git sequence while another waits
\* for the lock.
C1_Witness ==
    /\ cfg.variant = "archive"
    /\ \E t \in TaskIdx : \E u \in TaskIdx : MidGit(t) /\ pc[u] = "gitwait" /\ GIT_LOCK = t

\* C2: in orchestrator_ai.py (--parallel N > 1) and orchestrator_ai_parallel.py the
\* git steps of two tasks are never interleaved: no git step of a task falls
\* between the first and the last git step of another.
C2_UnlockedGitSerialized ==
    [][(cfg.variant \in {"parallel", "orch"} /\ cfg.workers > 1) => NoForeignGitStep]_vars

\* The worker of task t raised, or returned the task with status error.
TaskFailed(t) == pc[t] = "raised" \/ (pc[t] = "returned" /\ tasks[t].status = "error")

\* C3: a failure inside one task never aborts the run: the failing task ends with
\* status error, every dispatched task reaches a terminal status, and the task
\* set is persisted at the end of the run.
C3_FailureNeverAborts ==
    (/\ cfg.variant = "archive" /\ Finished
     /\ \E t \in TaskIdx : TaskFailed(t)
     /\ \A t \in TaskIdx : ~LoadedEligible(t) => loaded[t].id # Absent) =>
        /\ \A t \in TaskIdx : pc[t] = "raised" => tasks[t].status = "error"
        /\ \A t \in TaskIdx : LoadedEligible(t) => tasks[t].status \in {"done", "error"}
        /\ mainpc = "done"
        /\ ~cfg.dry_run => tasksFile = final_tasks

InFile(rec) == \E i \in 1..Len(tasksFile) : tasksFile[i] = rec

\* save_tasks has emptied the task-set file and not yet written it.
FileTorn == mainpc \in {"saving", "crashed"}

\* The save that prunes has been made.
PrunedSave == cfg.variant = "archive" /\ cfg.prune_done /\ ~cfg.dry_run /\ mainpc = "done"

HasValidationRecord(t) ==
    \E i \in 1..Len(archive.failed) :
        /\ archive.failed[i].outcome = "validation failed"
        /\ archive.failed[i].id = loaded[t].id

\* C5: an eligible task that lacks id, title or description is marked error and
\* gets a validation-failure record in the failure archive, without any
\* Proposer call, file mutation or git step.
C5_InvalidRejected ==
    (cfg.variant = "archive" /\ Finished) =>
        \A t \in TaskIdx : (LoadedEligible(t) /\ ~validate_task(loaded[t])) =>
            /\ tasks[t].status = "error"
            /\ HasValidationRecord(t)
            /\ calls[t] = ZeroCalls

\* Every loaded task is runnable and valid, the pool has several workers, git is
\* on, and every task's Proposer answer was applied and reached the git block,
\* where no command failed for a reason outside the repository's content.
AllWroteUnderGit ==
    /\ cfg.variant = "archive" /\ cfg.git /\ ~cfg.dry_run /\ cfg.workers > 1
    /\ \A t \in TaskIdx : /\ LoadedEligible(t) /\ validate_task(loaded[t])
                          /\ calls[t].apply = 1 /\ calls[t].git > 0 /\ calls[t].git_env = 0

TaskBranches == DOMAIN repo.tree \ {"main", "master", "trunk"}

\* C12: N runnable tasks under several workers with git on, each writing its own
\* file: whatever the interleaving, the run ends with the N files in the working
\* directory, exactly the N branches task/{id}, and every file in the history
\* of the default branch.
C12_ParallelWritesKept ==
    (Finished /\ AllWroteUnderGit) =>
        /\ repo.work = TaskIdx
        /\ TaskBranches = {"task/" \o loaded[t].id : t \in TaskIdx}
        /\ Cardinality(TaskBranches) = Len(loaded)
        /\ repo.tree[_default_branch(repo)] = TaskIdx

\* C12 witness: two tasks ran side by side; the first one's commit took the
\* other's file along, so the second had nothing to commit and ended in error.
C12_Witness ==
    /\ Finished /\ AllWroteUnderGit /\ Len(loaded) = 2
    /\ tasks[1].status = "done" /\ tasks[2].status = "error"

\* This invocation found every persisted task done, after an earlier one.
SecondRunAllDone == run > 1 /\ AllDone(loaded)

\* No Proposer call, no mutation, no git step, and no record changed in memory.
NothingExecuted ==
    \A t \in TaskIdx : /\ calls[t] = ZeroCalls
                       /\ tasks[t] = loaded[t]
                       /\ pc[t] \in {"new", "skipped"}

\* C13 (as stated): when a first run left every persisted task done, a second run
\* makes no Proposer call, no mutation and no git step, and leaves every task
\* record unchanged, in memory and in the task-set file.
C13_SecondRunNoOp ==
    SecondRunAllDone =>
        /\ NothingExecuted
        /\ mainpc = "done" => tasksFile = loaded

\* C13 (amended): the same, except that a second run with --prune-done saves an
\* empty task set: the done records are removed, none is altered.
C13_SecondRunNoOpOrPruned ==
    SecondRunAllDone =>
        /\ NothingExecuted
        /\ (mainpc = "done" /\ ~PrunedSave) => tasksFile = loaded
        /\ PrunedSave => tasksFile = <<>>

\* C13 witness: the second run has saved a task set that the first run had
\* completed, and the file holds it record for record.
C13_Witness ==
    /\ SecondRunAllDone /\ mainpc = "done" /\ ~cfg.dry_run /\ ~cfg.prune_done
    /\ tasksFile = loaded
    /\ \E t \in TaskIdx : loaded[t].completed_at = "now"

\* A worker has picked the task up and has not yet set its final status.
Executing(t) == pc[t] \in {"proposer", "gitwait", "branch", "commit", "merge"}

\* C14: a task's status is running from the moment a worker picks it up until
\* it becomes done or error.
C14_RunningWhileExecuted ==
    \A t \in TaskIdx : Executing(t) => tasks[t].status = "running"

\* C15: in orchestrator_ai_parallel_with_archive.py a run sets a task's branch
\* only when the git sequence ran and succeeded, and then to task/{id}; a task
\* done without git or in a dry run, or ending in error, gets no branch; and
\* completed_at is set exactly when the status becomes done.
C15_BranchOnlyAfterGit ==
    cfg.variant = "archive" =>
        \A t \in TaskIdx :
            /\ tasks[t].branch # loaded[t].branch =>
                   /\ cfg.git /\ ~cfg.dry_run /\ calls[t].git = 3
                   /\ tasks[t].status = "done"
                   /\ tasks[t].branch = "task/" \o tasks[t].id
            /\ tasks[t].completed_at # loaded[t].completed_at
                   <=> (LoadedEligible(t) /\ tasks[t].status = "done")

\* C16: every task a run has moved to done or error carries a non-empty
\* feedback field in its record.
C16_FeedbackStored ==
    \A t \in TaskIdx :
        (/\ LoadedEligible(t) /\ calls[t].run_task > 0 /\ pc[t] = "returned"
         /\ tasks[t].status \in {"done", "error"})
            => tasks[t].feedback # Absent

\* The archive file holds a record of the task.
Archived(file, t) == \E i \in 1..Len(archive[file]) : archive[file][i].id = tasks[t].id

\* The tasks the first run has finished with that status and archived.
Outcome(status) ==
    {t \in TaskIdx : pc[t] \in {"returned", "invalid"} /\ LoadedEligible(t)
                     /\ tasks[t].status = status}

\* C17: archive writes are serialized: after a run on empty archives each archive
\* file holds exactly one record for every task that ended with that outcome,
\* whatever the number of workers.
C17_ArchiveRecordsKept ==
    (run = 1 /\ Archives /\ Finished) =>
        /\ \A t \in Outcome("done") : Archived("done", t)
        /\ \A t \in Outcome("error") : Archived("failed", t)
        /\ Len(archive.done) = Cardinality(Outcome("done"))
        /\ Len(archive.failed) = Cardinality(Outcome("error"))

\* What the save of this run writes.
SavedSet == IF cfg.variant = "orch" THEN tasks ELSE final_tasks

\* C18: if the process stops during the final save, the task-set file holds
\* either the complete old task set or the complete new one.
C18_SaveAtomic ==
    mainpc = "crashed" => tasksFile \in {loaded, SavedSet}

\* C20: a dry run creates or modifies no project file, runs no git step, does
\* not rewrite the task-set file and appends no record to either archive.
C20_DryRunNoEffect ==
    (run = 1 /\ cfg.dry_run) =>
        /\ \A t \in TaskIdx : calls[t].apply = 0 /\ calls[t].git = 0
        /\ repo \in InitialRepos
        /\ tasksFile = loaded
        /\ archive = [failed |-> <<>>, done |-> <<>>]

\* C21: in orchestrator_ai_parallel_with_archive.py the git lock is released on
\* every exit of the branch / commit / merge sequence: it is free whenever no
\* worker is inside the sequence, also after a git step failed; so every worker
\* that waits for the lock gets it, and the pool is always left.
C21_LockReleased ==
    /\ [](cfg.variant = "archive" => ((\A t \in TaskIdx : ~InGit(t)) => GIT_LOCK = 0))
    /\ \A t \in 1..MaxTasks :
           (t <= Len(pc) /\ pc[t] = "gitwait") ~> (t <= Len(pc) /\ pc[t] = "branch")
    /\ (mainpc = "pool") ~> (mainpc # "pool")

\* C21 witness: a worker holds the lock after another worker's git step failed
\* and that worker left the sequence.
C21_Witness ==
    /\ cfg.variant = "archive"
    /\ \E t \in TaskIdx : \E u \in TaskIdx :
          /\ GIT_LOCK = t /\ pc[t] = "branch"
          /\ calls[u].git > 0 /\ tasks[u].status = "error" /\ ~InGit(u)

\* This step is the run_task call of task t.
ProposerStepOf(t) == calls'[t].run_task # calls[t].run_task

\* This step is a git call of task t that failed.
GitFailureOf(t) == GitStepOf(t) /\ tasks'[t].status = "error"

\* A git call is made only for a task whose Proposer call and mutation batch
\* have succeeded and which is not marked error.
GitAfterMutation ==
    \A t \in TaskIdx : GitStepOf(t) =>
        /\ InGit(t) /\ ~cfg.dry_run
        /\ calls[t].run_task = 1 /\ calls[t].apply = 1
        /\ tasks[t].status = loaded[t].status

\* A run_task call that fails before apply_operations changes no file and
\* marks the task error, unless it raised.
ProposerFailureClean ==
    \A t \in TaskIdx :
        (ProposerStepOf(t) /\ calls'[t].apply = calls[t].apply /\ ~cfg.dry_run) =>
            /\ repo' = repo
            /\ tasks'[t].status # "done"

\* A failing git call marks the task error and removes no file from the
\* working directory.
GitFailureKeepsFiles ==
    \A t \in TaskIdx : GitFailureOf(t) => repo.work \subseteq repo'.work

\* A task marked error by this run is not set to done afterwards.
ErrorStays ==
    \A t \in TaskIdx :
        (tasks[t].status = "error" /\ pc[t] \in {"arch_read", "arch_write", "returned"})
            => tasks'[t].status = "error"

\* C22: in orchestrator_ai_parallel_with_archive.py per task the steps run in the order Proposer, mutation, git: no git
\* step without a successful Proposer call and mutation batch; a Proposer
\* failure leaves the files untouched; a git failure marks the task error and
\* the files already written stay in place; a failed task is never set to done.
C22_StepOrder ==
    [][(cfg.variant = "archive" /\ run' = run) =>
          (GitAfterMutation /\ ProposerFailureClean /\ GitFailureKeepsFiles /\ ErrorStays)]_vars

\* C23: in a non-dry run of orchestrator_ai_parallel_with_archive.py or
\* orchestrator_ai_parallel.py the task-set file is written only after every
\* dispatched task has reached done or error; the run ends with that write made;
\* and the file then holds one record per loaded task, in the loaded order, each
\* dispatched task with the final status its worker produced.
C23_SavedAfterAllTasks ==
    (cfg.variant \in {"archive", "parallel"} /\ ~cfg.dry_run /\ run = 1) =>
        /\ tasksFile # loaded =>
               \A t \in TaskIdx : LoadedEligible(t) =>
                   (pc[t] = "returned" /\ tasks[t].status \in {"done", "error"})
        /\ Finished =>
               /\ Len(tasksFile) = Len(loaded)
               /\ \A t \in TaskIdx :
                      /\ tasksFile[t].id = loaded[t].id
                      /\ LoadedEligible(t) =>
                             (tasksFile[t].status = tasks[t].status
                              /\ tasksFile[t].status \in {"done", "error"})

\* A fixed input: every loaded task is runnable and valid, git is on, every
\* Proposer answer was applied (each task writing its own file), and no git
\* command failed for a reason outside the repository's content.
FixedInput ==
    /\ cfg.variant = "archive" /\ cfg.git /\ ~cfg.dry_run /\ ~cfg.prune_done
    /\ \A t \in TaskIdx : /\ LoadedEligible(t) /\ validate_task(loaded[t])
                          /\ calls[t].apply = 1 /\ calls[t].git > 0 /\ calls[t].git_env = 0

\* C24: the persisted task set does not depend on the schedule.  On a fixed
\* input a pool of one worker persists every task, in the loaded order, with
\* status done; so does every interleaving of several workers.
C24_ScheduleIndependent ==
    (mainpc = "done" /\ FixedInput) =>
        /\ Len(tasksFile) = Len(loaded)
        /\ \A t \in TaskIdx : tasksFile[t].id = loaded[t].id /\ tasksFile[t].status = "done"

\* This step is the merge step of task t, and it succeeded: the task is done.
MergedDone(t) == pc[t] = "merge" /\ pc'[t] # "merge" /\ tasks'[t].status = "done"

\* C25: for a task that finishes done with git on, whatever the repository,
\* merge_branch_to_default leaves the default branch checked out, that branch is
\* not the task's own branch, and a merge commit on it merges task/{id}.
C25_MergeCommitOnDefault ==
    [][\A t \in TaskIdx : MergedDone(t) =>
           /\ _default_branch(repo) # BranchOf(t)
           /\ repo'.head = _default_branch(repo)
           /\ BranchOf(t) \in repo'.merged /\ BranchOf(t) \notin repo.merged]_vars

\* The record is neither done nor error.
NotProcessed(t) == t.status \notin {"done", "error"}

\* C26: with --prune-done the persisted collection is the merged collection
\* minus exactly the tasks whose status is done or error; every record with
\* another status, pending or one the run skipped, is kept unchanged and in
\* place.
C26_PruneKeepsOthers ==
    PrunedSave => tasksFile = SelectSeq(MergedTasks, NotProcessed)

\* This step is the commit step of task t, and no command of it failed for a
\* reason outside the repository's content.
CommitStepOf(t) ==
    pc[t] = "commit" /\ GitStepOf(t) /\ calls'[t].git_env = calls[t].git_env

\* C27: with several workers and git on, a task that reaches its commit step has
\* its own changes to commit, and the commit made on the branch checked out
\* holds the file of that task and of no other.
C27_CommitOwnChangesOnly ==
    [][(cfg.variant = "archive" /\ cfg.workers > 1) =>
          \A t \in TaskIdx : CommitStepOf(t) =>
              /\ pc'[t] = "merge"
              /\ repo'.tree[repo.head] \ repo.tree[repo.head] = {t}]_vars

(***************************************************************************)
(* Paths and texts as character sequences (posixpath, str)                 *)
(***************************************************************************)
StartsWith(s, p) == Len(p) <= Len(s) /\ SubSeq(s, 1, Len(p)) = p

\* str.rfind("/") + 1 (counting from 0): the place of the last slash, 0 if none
AfterLastSlash(p) ==
    IF \E i \in 1..Len(p) : p[i] = "/"
    THEN (CHOOSE i \in 1..Len(p) : p[i] = "/" /\ \A j \in (i + 1)..Len(p) : p[j] # "/")
    ELSE 0

RECURSIVE RStripSlash(_)
RStripSlash(p) == IF Len(p) > 0 /\ p[Len(p)] = "/" THEN RStripSlash(SubSeq(p, 1, Len(p) - 1)) ELSE p

\* os.path.basename
basename(p) == SubSeq(p, AfterLastSlash(p) + 1, Len(p))

\* os.path.dirname
dirname(p) ==
    LET head == SubSeq(p, 1, AfterLastSlash(p))
    IN  IF RStripSlash(head) # <<>> THEN RStripSlash(head) ELSE head

isabs(p) == Len(p) > 0 /\ p[1] = "/"

\* os.path.join(a, b)
join(a, b) ==
    IF isabs(b) THEN b
    ELSE IF a = <<>> \/ a[Len(a)] = "/" THEN a \o b
    ELSE a \o <<"/">> \o b

RECURSIVE SplitSlash(_)
\* str.split("/")
SplitSlash(p) ==
    IF \A i \in 1..Len(p) : p[i] # "/" THEN <<p>>
    ELSE LET i == CHOOSE k \in 1..Len(p) : p[k] = "/" /\ \A j \in 1..(k - 1) : p[j] # "/"
         IN  <<SubSeq(p, 1, i - 1)>> \o SplitSlash(SubSeq(p, i + 1, Len(p)))

RECURSIVE JoinSlash(_)
\* "/".join(comps)
JoinSlash(comps) ==
    IF comps = <<>> THEN <<>>
    ELSE IF Len(comps) = 1 THEN comps[1]
    ELSE comps[1] \o <<"/">> \o JoinSlash(Tail(comps))

DotDot == <<".", ".">>

RECURSIVE NormComps(_, _, _)
\* the loop of posixpath.normpath over the components still to read
NormComps(comps, new_comps, initial_slashes) ==
    IF comps = <<>> THEN new_comps
    ELSE LET comp == Head(comps)
         IN  IF comp = <<>> \/ comp = <<".">>
             THEN NormComps(Tail(comps), new_comps, initial_slashes)
             ELSE IF \/ comp # DotDot
                     \/ (initial_slashes = 0 /\ new_comps = <<>>)
                     \/ (new_comps # <<>> /\ new_comps[Len(new_comps)] = DotDot)
             THEN NormComps(Tail(comps), Append(new_comps, comp), initial_slashes)
             ELSE IF new_comps # <<>>
             THEN NormComps(Tail(comps), SubSeq(new_comps, 1, Len(new_comps) - 1), initial_slashes)
             ELSE NormComps(Tail(comps), new_comps, initial_slashes)

\* os.path.normpath
normpath(p) ==
    IF p = <<>> THEN <<".">>
    ELSE LET initial_slashes ==
                 IF ~isabs(p) THEN 0
                 ELSE IF StartsWith(p, <<"/", "/">>) /\ ~StartsWith(p, <<"/", "/", "/">>) THEN 2
                 ELSE 1
             body == JoinSlash(NormComps(SplitSlash(p), <<>>, initial_slashes))
             full == [i \in 1..initial_slashes |-> "/"] \o body
         IN  IF full = <<>> THEN <<".">> ELSE full

\* os.path.abspath
abspath(p) == IF isabs(p) THEN normpath(p) ELSE normpath(join(cwd, p))

\* The components of a normalised absolute path.
Comps(p) == NormComps(SplitSlash(p), <<>>, 1)

\* p is directory root or lies below it, component by component.
Within(root, p) == StartsWith(Comps(p), Comps(root))

RECURSIVE SplitLines(_)
\* str.splitlines() of a text whose only line break is "\n"
SplitLines(s) ==
    IF s = <<>> THEN <<>>
    ELSE IF \A i \in 1..Len(s) : s[i] # "\n" THEN <<s>>
    ELSE LET i == CHOOSE k \in 1..Len(s) : s[k] = "\n" /\ \A j \in 1..(k - 1) : s[j] # "\n"
         IN  <<SubSeq(s, 1, i - 1)>> \o SplitLines(SubSeq(s, i + 1, Len(s)))

RECURSIVE JoinLines(_)
\* "\n".join(lines)
JoinLines(lines) ==
    IF lines = <<>> THEN <<>>
    ELSE IF Len(lines) = 1 THEN lines[1]
    ELSE lines[1] \o <<"\n">> \o JoinLines(Tail(lines))

\* A line difflib.restore(delta, 1) keeps: it starts with "  " or "- ".
IsDeltaLine(line) == StartsWith(line, <<" ", " ">>) \/ StartsWith(line, <<"-", " ">>)

RECURSIVE restore(_)
\* difflib.restore(delta, 1)
restore(delta) ==
    IF delta = <<>> THEN <<>>
    ELSE IF IsDeltaLine(Head(delta))
    THEN <<SubSeq(Head(delta), 3, Len(Head(delta)))>> \o restore(Tail(delta))
    ELSE restore(Tail(delta))

\* utils.AUTOMATION_CORE
AUTOMATION_CORE ==
    {<<"o", "r", "c", "h", "e", "s", "t", "r", "a", "t", "o", "r", "_", "a", "i", "_", "p", "a", "r", "a", "l", "l", "e", "l", "_", "w", "i", "t", "h", "_", "a", "r", "c", "h", "i", "v", "e", ".", "p", "y">>,
     <<"t", "a", "s", "k", "_", "r", "u", "n", "n", "e", "r", ".", "p", "y">>,
     <<"u", "t", "i", "l", "s", ".", "p", "y">>,
     <<"g", "i", "t", "_", "u", "t", "i", "l", "s", ".", "p", "y">>,
     <<"r", "e", "s", "e", "t", "_", "t", "a", "s", "k", "s", ".", "p", "y">>}

(***************************************************************************)
(* apply_operations on a file system                                       *)
(***************************************************************************)
\* ---- bound: the longest batch of operations ----
MaxOps == 2

\* args.project, made absolute
project_abs == <<"/", "w", "/", "p">>

\* The directories the program may be launched from: the project, its parent.
LaunchDirs == {<<"/", "w", "/", "p">>, <<"/", "w">>}

\* A content that is not a string (JSON null).
NoneContent == <<"None">>

OpActions == {"write", "WRITE", "append", "patch", "delete", ""}
OpPaths == {<<"x">>,
            <<"d", "/", "x">>,
            <<"d">>,
            <<".", ".", "/", "x">>,
            <<".", ".", "/", "p", "2", "/", "x">>,
            <<"/", "e", "/", "x">>,
            <<"u", "t", "i", "l", "s", ".", "p", "y">>,
            <<"d", "/", "u", "t", "i", "l", "s", ".", "p", "y">>,
            <<"d", "/", ".", ".", "/", "u", "t", "i", "l", "s", ".", "p", "y">>,
            <<>>}
OpContents == {<<"a">>,
               <<"b", "\n">>,
               <<" ", " ", "a", "\n", "-", " ", "b", "\n", "+", " ", "c">>,
               <<" ", " ", "a", "\n", "b">>,
               NoneContent}
Operations == [action : OpActions, path : OpPaths, content : OpContents]
NoOp == [action |-> "", path |-> <<>>, content |-> <<>>]

\* str.lower() on the actions the model draws
lower(a) == IF a = "WRITE" THEN "write" ELSE a

EmptyFs == [p \in {} |-> <<>>]
OldText == <<"o", "\n">>

\* Files a project may hold before the run, under either launch directory.
SeedFiles == {join(d, r) : d \in LaunchDirs, r \in {<<"x">>, <<"u", "t", "i", "l", "s", ".", "p", "y">>, <<"d", "/", "u", "t", "i", "l", "s", ".", "p", "y">>}}

RECURSIVE Ancestors(_)
\* The directories above path p, up to the root directory.
Ancestors(p) == IF dirname(p) = p THEN {p} ELSE {dirname(p)} \cup Ancestors(dirname(p))

InitialFs == {EmptyFs, [p \in SeedFiles |-> OldText]}

exists(p) == p \in DOMAIN fs \/ p \in dirs

\* _safe_path: the joined, normalised path, refused unless REPO_ROOT is a string
\* prefix of it
_safe_path(path) ==
    LET full == abspath(join(REPO_ROOT, path))
    IN  IF ~StartsWith(full, REPO_ROOT) THEN [ok |-> FALSE, full |-> full]
        ELSE [ok |-> TRUE, full |-> full]

\* The lock check looking at the whole path instead of its base name.
_refuse_if_locked_WholePath(path) == path \in AUTOMATION_CORE

\* _refuse_if_locked: TRUE when it raises
_refuse_if_locked(path) == basename(path) \in AUTOMATION_CORE

\* os.makedirs(name, exist_ok=True) raises when name or a directory above it is
\* a regular file; otherwise name and the directories above it exist afterwards.
makedirs_raises(name) == \E a \in {name} \cup Ancestors(name) : a \in DOMAIN fs
makedirs(name) == dirs \cup {name} \cup Ancestors(name)

Put(f, k, v) == [p \in DOMAIN f \cup {k} |-> IF p = k THEN v ELSE f[p]]

\* The text the patch branch writes back.
PatchedText(old, content) ==
    LET restored == restore(SplitLines(content))
        patched == IF restored = <<>> THEN SplitLines(old) ELSE restored
    IN  JoinLines(patched) \o (IF patched # <<>> THEN <<"\n">> ELSE <<>>)

\* One pass of the loop body of apply_operations over op, as the outcome
\* [err, fs, dirs]: err is "none" or the kind of the exception raised.
ApplyOne(op) ==
    LET action == lower(op.action)
        sp == _safe_path(op.path)
        safe == sp.full
        Out(e, f, d) == [err |-> e, fs |-> f, dirs |-> d]
    IN  IF action = "" \/ op.path = <<>> THEN Out("missing", fs, dirs)
        ELSE IF ~sp.ok THEN Out("escape", fs, dirs)
        ELSE IF _refuse_if_locked(safe) THEN Out("locked", fs, dirs)
        ELSE IF makedirs_raises(dirname(safe)) THEN Out("oserror", fs, dirs)
        ELSE LET d2 == makedirs(dirname(safe))
             IN  CASE action = "write" ->
                        IF safe \in d2 THEN Out("oserror", fs, d2)
                        ELSE IF op.content = NoneContent
                        THEN Out("typeerror", Put(fs, safe, <<>>), d2)
                        ELSE Out("none", Put(fs, safe, op.content), d2)
                   [] action = "append" ->
                        IF safe \in d2 THEN Out("oserror", fs, d2)
                        ELSE LET old == IF safe \in DOMAIN fs THEN fs[safe] ELSE <<>>
                             IN  IF op.content = NoneContent
                                 THEN Out("typeerror", Put(fs, safe, old), d2)
                                 ELSE Out("none", Put(fs, safe, old \o op.content), d2)
                   [] action = "patch" ->
                        IF safe \notin DOMAIN fs /\ safe \notin d2
                        THEN Out("patch_target", fs, d2)
                        ELSE IF safe \in d2 THEN Out("oserror", fs, d2)
                        ELSE IF op.content = NoneContent THEN Out("typeerror", fs, d2)
                        ELSE Out("none", Put(fs, safe, PatchedText(fs[safe], op.content)), d2)
                   [] OTHER -> Out("unknown_action", fs, d2)

\* The loop goes on although an operation raised.
LoopRuns_AfterError == opc = "apply" /\ nops < MaxOps

\* The for loop of apply_operations runs until an operation raises.
LoopRuns == opc = "apply" /\ err = "none" /\ nops < MaxOps

InitOps ==
    /\ RunIdle
    /\ opc = "import"
    /\ cwd \in LaunchDirs
    /\ REPO_ROOT = <<>>
    /\ fs \in InitialFs
    /\ dirs = UNION {Ancestors(f) : f \in DOMAIN fs} \cup UNION {{d} \cup Ancestors(d) : d \in LaunchDirs}
    /\ nops = 0
    /\ lastOp = NoOp
    /\ err = "none"
    /\ result = [error |-> FALSE, feedback |-> "none"]

\* import file_ops: REPO_ROOT = os.getcwd()
Import ==
    /\ opc = "import"
    /\ REPO_ROOT' = cwd
    /\ opc' = "chdir"
    /\ UNCHANGED <<cwd, fs, dirs, nops, lastOp, err, result, runVars>>

\* main: os.chdir(project_abs)
MainChdir ==
    /\ opc = "chdir"
    /\ cwd' = project_abs
    /\ opc' = "apply"
    /\ UNCHANGED <<REPO_ROOT, fs, dirs, nops, lastOp, err, result, runVars>>

\* apply_operations takes the next operation of the batch.
ApplyOp ==
    /\ LoopRuns
    /\ \E op \in Operations :
        LET out == ApplyOne(op)
        IN  /\ lastOp' = op
            /\ err' = out.err
            /\ fs' = out.fs
            /\ dirs' = out.dirs
    /\ nops' = nops + 1
    /\ UNCHANGED <<opc, cwd, REPO_ROOT, result, runVars>>

\* call_openai_chat after apply_operations: the batch is over, or the exception
\* is caught and reported.
Return ==
    /\ opc = "apply"
    /\ opc' = "returned"
    /\ result' = IF err # "none" THEN [error |-> TRUE, feedback |-> "Apply operations failed"]
                 ELSE [error |-> FALSE, feedback |-> "Changes applied"]
    /\ UNCHANGED <<cwd, REPO_ROOT, fs, dirs, nops, lastOp, err, runVars>>

\* The process stops inside a write operation that would have succeeded, after
\* open(safe, "w") has created or emptied the file and before f.write has put
\* the content into it.
KilledInWrite ==
    /\ LoopRuns
    /\ \E op \in Operations :
        LET out == ApplyOne(op)
        IN  /\ lower(op.action) = "write" /\ out.err = "none"
            /\ lastOp' = op
            /\ fs' = Put(fs, _safe_path(op.path).full, <<>>)
            /\ dirs' = out.dirs
    /\ opc' = "crashed"
    /\ UNCHANGED <<cwd, REPO_ROOT, nops, err, result, runVars>>

NextOps == Import \/ MainChdir \/ ApplyOp \/ Return \/ KilledInWrite

SpecOps == InitOps /\ [][NextOps]_vars

(***************************************************************************)
(* Properties of apply_operations                                          *)
(***************************************************************************)
\* The operation names an action and a path.
WellFormed(op) == lower(op.action) # "" /\ op.path # <<>>

\* The absolute path an operation's path stands for.
Resolved(op) == abspath(join(REPO_ROOT, op.path))

\* This step processed the operation lastOp'.
Stepped == nops' = nops + 1

\* Once an operation has raised, nothing more is applied.
StopsAfterError == err # "none" => (fs' = fs /\ dirs' = dirs /\ nops' = nops)

\* C6: an operation whose joined and normalised path is neither the root nor
\* below it (by path components) raises the path-escape error and creates or
\* modifies no file or directory.
C6_EscapeRefused ==
    [][(Stepped /\ WellFormed(lastOp') /\ ~Within(REPO_ROOT, Resolved(lastOp')))
          => (err' = "escape" /\ fs' = fs /\ dirs' = dirs)]_vars

\* C7: whatever directory the process was launched from, the root of the sandbox
\* check and of the path join is the configured project root, so every file an
\* operation created or modified lies inside the project.
C7_WritesInsideProject ==
    (opc \in {"apply", "returned"} /\ nops > 0 /\ err = "none") =>
        /\ REPO_ROOT = project_abs
        /\ Within(project_abs, Resolved(lastOp))

\* No file with a locked base name is created, removed or changed by this step.
LockedUntouched ==
    \A p \in DOMAIN fs \cup DOMAIN fs' :
        basename(p) \in AUTOMATION_CORE => (p \in DOMAIN fs /\ p \in DOMAIN fs' /\ fs'[p] = fs[p])

\* An operation that reaches the lock check with a locked base name raises the
\* locked-file error.
LockedRaises ==
    (/\ Stepped /\ WellFormed(lastOp') /\ _safe_path(lastOp'.path).ok
     /\ basename(Resolved(lastOp')) \in AUTOMATION_CORE)
        => err' = "locked"

\* C8: a file whose base name is in AUTOMATION_CORE is never created, truncated
\* or modified, whatever the action and the directory; the operation raises the
\* locked-file error and no later operation of the batch is applied.
C8_LockedNeverTouched == [][LockedUntouched /\ LockedRaises /\ StopsAfterError]_vars

\* C8 witness: after a first operation, a write to an existing locked file in a
\* subdirectory was refused and the file still holds its old text.
C8_Witness ==
    /\ err = "locked" /\ nops = 2 /\ lower(lastOp.action) = "write"
    /\ lastOp.path = <<"d", "/", "u", "t", "i", "l", "s", ".", "p", "y">>
    /\ Resolved(lastOp) \in DOMAIN fs /\ fs[Resolved(lastOp)] = OldText

\* The failures of an operation that C9 lists.
ListedFailures == {"missing", "escape", "locked", "patch_target", "unknown_action"}

FailingStep == err = "none" /\ err' # "none"

\* C9: operations are applied in the order given, one per step; when operation k
\* fails the files keep what operations 1..k-1 left (nothing is rolled back),
\* no operation after k is applied, and the task is reported as an error.
C9_NoRollbackNoContinue ==
    [][/\ Stepped => err = "none"
       /\ (FailingStep /\ err' \in ListedFailures) => fs' = fs
       /\ FailingStep => \A p \in DOMAIN fs :
                             p # Resolved(lastOp') => (p \in DOMAIN fs' /\ fs'[p] = fs[p])
       /\ StopsAfterError
       /\ opc' = "returned" => result'.error = (err # "none")]_vars

\* C9 witness: the second operation failed in a listed way after the first one
\* had written a file, and the call returned an error.
C9_Witness ==
    /\ opc = "returned" /\ result.error /\ nops = 2 /\ err \in ListedFailures
    /\ \E p \in DOMAIN fs : fs[p] = <<"a">>

\* No line of the payload is a delta line.
Unparseable(content) ==
    /\ content # NoneContent
    /\ \A i \in 1..Len(SplitLines(content)) : ~IsDeltaLine(SplitLines(content)[i])

\* C10: a patch of an existing file with a payload that holds no delta line
\* leaves the file holding exactly the payload.
C10_PatchFallsBackToPayload ==
    [][(/\ Stepped /\ lower(lastOp'.action) = "patch" /\ err' = "none"
        /\ Unparseable(lastOp'.content))
          => fs'[Resolved(lastOp')] = lastOp'.content]_vars

\* A line as difflib.ndiff writes it: a two-character tag, then the text.
IsNdiffLine(line) ==
    \E tag \in {" ", "-", "+", "?"} : StartsWith(line, <<tag, " ">>)

\* Some line of the payload is not a line of a delta.
IllFormedDelta(content) ==
    /\ content # NoneContent
    /\ \E i \in 1..Len(SplitLines(content)) : ~IsNdiffLine(SplitLines(content)[i])

\* C11: a patch whose payload is not a well-formed delta leaves the file holding
\* either what it held before or the complete payload, never a part of the
\* payload's lines.
C11_PatchNeverPartial ==
    [][(/\ Stepped /\ lower(lastOp'.action) = "patch" /\ err' = "none"
        /\ IllFormedDelta(lastOp'.content))
          => fs'[Resolved(lastOp')] \in {fs[Resolved(lastOp')], lastOp'.content}]_vars

\* C19: a write operation replaces its target atomically: if the process stops
\* during the write, the target holds either its complete previous content (or
\* is still missing) or the complete new content.
C19_WriteAtomic ==
    [][opc' = "crashed" =>
          LET p == Resolved(lastOp')
          IN  \/ fs'[p] = lastOp'.content
              \/ p \in DOMAIN fs /\ fs'[p] = fs[p]
              \/ p \notin DOMAIN fs /\ p \notin DOMAIN fs']_vars

====
